---------------------------- MODULE Spec2Model ----------------------------
(***************************************************************************)
(* Model of translate_workflows.py: the Directory Walker (main) and the    *)
(* Record Transform (translate_workflow).                                  *)
(*                                                                         *)
(* The file system is part of the state: the `workflows' directory is a    *)
(* sequence of entry names (in the order os.listdir returns them) and      *)
(* every entry is a file with a permission and a text.  A text is either   *)
(* not JSON at all, or the serialisation of a JSON value in some layout;   *)
(* json.load forgets the layout and json.dump(indent=2) always produces    *)
(* the indented layout, so reading and writing a file is not the identity. *)
(*                                                                         *)
(* A mapping is a function from its keys: the order of the keys in the     *)
(* text, which json.load and json.dump preserve, is not represented.       *)
(* The console accepts every line that is printed.                         *)
(***************************************************************************)
EXTENDS Naturals, Sequences, FiniteSets, TLC

(***************************************************************************)
(* Bounds of the model.                                                    *)
(***************************************************************************)
MaxEntries == 2      \* entries in the workflows directory
MaxRuns    == 2      \* how many times the program is started

(***************************************************************************)
(* JSON values, tagged by their Python type after json.load.               *)
(***************************************************************************)
Null    == [t |-> "null"]
Str(s)  == [t |-> "str", s |-> s]
Num(n)  == [t |-> "num", n |-> n]
Arr(a)  == [t |-> "arr", a |-> a]
Obj(o)  == [t |-> "obj", o |-> o]

EmptyMap == [k \in {} |-> Null]

\* A string holding a lone surrogate (JSON text "\ud800"): json.load accepts
\* it, the utf-8 codec of the output file refuses it.
LoneSurrogate == "\\ud800"

\* The fixed target locale and the walker's constants.
TargetLocale == "fa"
JsonSuffix   == <<".", "j", "s", "o", "n">>

(***************************************************************************)
(* Exceptions: the type and str(e), which is what the walker prints.       *)
(***************************************************************************)
NoExc           == [type |-> "none", msg |-> ""]
PermissionError == [type |-> "PermissionError", msg |-> "Permission denied"]
JSONDecodeError == [type |-> "JSONDecodeError", msg |-> "Expecting value"]
NotIterable     == [type |-> "TypeError", msg |-> "argument is not iterable"]
ListIndexError  == [type |-> "TypeError", msg |-> "list indices must be integers or slices, not str"]
\* str(KeyError(k)) is repr(k)
KeyError(k)     == [type |-> "KeyError", msg |-> "'" \o k \o "'"]
UnicodeEncodeError == [type |-> "UnicodeEncodeError", msg |-> "surrogates not allowed"]

(***************************************************************************)
(* Python operations on the loaded value.                                  *)
(***************************************************************************)
\* `key in data` is defined for mappings (a key) and lists (an element);
\* numbers and null raise TypeError.  (A top-level JSON string, on which
\* `in` is the substring test, is not among the inputs.)
Iterable(data) == data.t \in {"obj", "arr"}

Contains(data, key) ==
    IF data.t = "obj" THEN key \in DOMAIN data.o
    ELSE \E i \in 1..Len(data.a) : data.a[i] = Str(key)

\* Mutant: the assignment replaces the mapping by one holding only the new key.
SetItem_Replacing(data, key, v) ==
    IF data.t = "obj"
    THEN [exc |-> NoExc, data |-> Obj([x \in {key} |-> v])]
    ELSE [exc |-> ListIndexError, data |-> data]

\* data[key] = v
SetItem(data, key, v) ==
    IF data.t = "obj"
    THEN [exc |-> NoExc,
          data |-> Obj([x \in (DOMAIN data.o) \cup {key} |->
                           IF x = key THEN v ELSE data.o[x]])]
    ELSE [exc |-> ListIndexError, data |-> data]

\* Mutant: data.get(key), which yields None for a missing key.
GetItem_Get(data, key) ==
    IF data.t = "obj"
    THEN IF key \in DOMAIN data.o
         THEN [exc |-> NoExc, val |-> data.o[key]]
         ELSE [exc |-> NoExc, val |-> Null]
    ELSE [exc |-> ListIndexError, val |-> Null]

\* data[key]
GetItem(data, key) ==
    IF data.t = "obj"
    THEN IF key \in DOMAIN data.o
         THEN [exc |-> NoExc, val |-> data.o[key]]
         ELSE [exc |-> KeyError(key), val |-> Null]
    ELSE [exc |-> ListIndexError, val |-> Null]

\* Mutant: JSON null is inserted instead of the empty string.
DefaultDescription_Null == Null

\* The value line 9 inserts.
DefaultDescription == Str("")

\* Mutant: an else branch removes a description that is present.
MutateDescription_Toggle(data) ==
    IF ~Iterable(data) THEN [exc |-> NotIterable, data |-> data]
    ELSE IF ~Contains(data, "description")
         THEN SetItem(data, "description", DefaultDescription)
         ELSE IF data.t = "obj"
              THEN [exc |-> NoExc,
                    data |-> Obj([x \in (DOMAIN data.o) \ {"description"} |-> data.o[x]])]
              ELSE [exc |-> ListIndexError, data |-> data]

\* Mutant: the default of lines 8-9 is never applied.
MutateDescription_Skipped(data) ==
    IF ~Iterable(data) THEN [exc |-> NotIterable, data |-> data]
    ELSE [exc |-> NoExc, data |-> data]

\* Lines 8-9.
MutateDescription(data) ==
    IF ~Iterable(data) THEN [exc |-> NotIterable, data |-> data]
    ELSE IF ~Contains(data, "description")
         THEN SetItem(data, "description", DefaultDescription)
         ELSE [exc |-> NoExc, data |-> data]

\* Mutant: the entry gets the default description, not the record's.
Synthesize_DefaultDescription(name, description) ==
    Obj([l \in {TargetLocale} |-> Obj([name |-> name, description |-> DefaultDescription])])

\* The dict literal of lines 12-17, given the two values it copies.
Synthesize(name, description) ==
    Obj([l \in {TargetLocale} |-> Obj([name |-> name, description |-> description])])

\* Mutant: line 11 is dropped, translations is rebuilt on every call.
MutateTranslations_Unguarded(data) ==
    IF ~Iterable(data) THEN [exc |-> NotIterable, data |-> data]
    ELSE LET n == GetItem(data, "name")
             d == GetItem(data, "description")
         IN  IF n.exc # NoExc THEN [exc |-> n.exc, data |-> data]
             ELSE IF d.exc # NoExc THEN [exc |-> d.exc, data |-> data]
             ELSE SetItem(data, "translations", Synthesize(n.val, d.val))

\* Lines 11-17.  The dict literal is evaluated before the assignment, name first.
MutateTranslations(data) ==
    IF ~Iterable(data) THEN [exc |-> NotIterable, data |-> data]
    ELSE IF ~Contains(data, "translations")
         THEN LET n == GetItem(data, "name")
                  d == GetItem(data, "description")
              IN  IF n.exc # NoExc THEN [exc |-> n.exc, data |-> data]
                  ELSE IF d.exc # NoExc THEN [exc |-> d.exc, data |-> data]
                  ELSE SetItem(data, "translations", Synthesize(n.val, d.val))
         ELSE [exc |-> NoExc, data |-> data]

\* Lines 8-17: the in-memory mutation; data is the value at the point where
\* the block ends or raises.
Mutate(data) ==
    LET r == MutateDescription(data)
    IN  IF r.exc # NoExc THEN r ELSE MutateTranslations(r.data)

(***************************************************************************)
(* Texts and the two conversions.                                          *)
(***************************************************************************)
Garbage        == [kind |-> "garbage", fmt |-> "none", val |-> Null]
EmptyText      == [kind |-> "empty",   fmt |-> "none", val |-> Null]
Json(fmt, v)   == [kind |-> "json",    fmt |-> fmt,    val |-> v]
\* A proper prefix of the indented serialisation of v.
Partial(v)     == [kind |-> "partial", fmt |-> "indent2", val |-> v]

\* json.load (line 6)
JsonLoad(text) ==
    IF text.kind = "json" THEN [exc |-> NoExc, val |-> text.val]
    ELSE [exc |-> JSONDecodeError, val |-> Null]

RECURSIVE Encodable(_)
\* Can the utf-8 codec write every string of v?
Encodable(v) ==
    CASE v.t = "str" -> v.s # LoneSurrogate
      [] v.t = "obj" -> \A k \in DOMAIN v.o : Encodable(v.o[k])
      [] v.t = "arr" -> \A i \in 1..Len(v.a) : Encodable(v.a[i])
      [] OTHER       -> TRUE

\* json.dump(data, f, indent=2, ensure_ascii=False) into the truncated
\* file (line 20): the text the file holds when the with-block is left.
JsonDump(v) ==
    IF Encodable(v) THEN [exc |-> NoExc, text |-> Json("indent2", v)]
    ELSE [exc |-> UnicodeEncodeError, text |-> Partial(v)]

\* Mutant: the file is opened with mode 'w+', which truncates it.
OpenRead_Truncating(text) == EmptyText

\* What open(file_path, 'r') does to the text of the file (line 5).
OpenRead(text) == text
\* What open(file_path, 'w') does to the text of the file (line 19).
OpenWrite(text) == EmptyText

CanRead(file)  == file.perm \in {"rw", "r-"}
CanWrite(file) == file.perm \in {"rw"}

\* filename.endswith('.json')  (line 25)
EndsWith(name, suffix) ==
    /\ Len(name) >= Len(suffix)
    /\ SubSeq(name, Len(name) - Len(suffix) + 1, Len(name)) = suffix

\* Mutant: the suffix is tested without its dot.
IsWorkflowFile_NoDot(name) ==
    /\ Len(name) >= 4
    /\ SubSeq(name, Len(name) - 3, Len(name)) = <<"j", "s", "o", "n">>

\* The test of line 25.
IsWorkflowFile(name) == EndsWith(name, JsonSuffix)


(***************************************************************************)
(* The inputs: entry names and the files a workflows directory may hold.   *)
(***************************************************************************)
Names ==
    { <<"a", ".", "j", "s", "o", "n">>,      \* a.json
      <<"b", ".", "j", "s", "o", "n">>,      \* b.json
      <<"a", "j", "s", "o", "n">> }          \* ajson: no dot, not selected

Absent == [t |-> "absent"]

\* The record with the given values for its four keys (Absent: no such key).
MkRecord(name, description, translations, id) ==
    LET all == [name |-> name, description |-> description,
                translations |-> translations, id |-> id]
    IN  Obj([k \in {x \in DOMAIN all : all[x] # Absent} |-> all[k]])

SampleName == Str("Sample")
SampleDesc == Str("desc")
EnOnly     == Obj([en |-> Obj([name |-> SampleName, description |-> SampleDesc])])

Records ==
    { MkRecord(n, d, tr, Absent) :
         n \in {Absent, SampleName}, d \in {Absent, SampleDesc}, tr \in {Absent, EnOnly} }
    \cup
    { MkRecord(SampleName, Str(""), Absent, Num(1)),          \* empty description, other key
      MkRecord(SampleName, Num(7), Absent, Absent),           \* non-string description
      MkRecord(Str(LoneSurrogate), Absent, Absent, Absent),   \* cannot be written back
      MkRecord(Absent, SampleDesc, Obj(EmptyMap), Absent) }   \* empty translations, no name

\* A record that is already complete and already in the indented layout.
Canonical ==
    MkRecord(SampleName, Str(""), Synthesize(SampleName, Str("")), Num(1))

NonMappings ==
    { Arr(<<>>), Arr(<<Str("description"), Str("translations")>>), Num(5) }

File(perm, text) == [perm |-> perm, text |-> text]

Files ==
    { File("rw", Json("compact", r)) : r \in Records \cup NonMappings }
    \cup
    { File("rw", Json("indent2", Canonical)),
      File("rw", Garbage),
      File("r-", Json("compact", MkRecord(SampleName, Absent, Absent, Absent))),
      File("--", Json("compact", MkRecord(SampleName, Absent, Absent, Absent))) }

\* One file for each way a call of translate_workflow can end.
WalkFiles ==
    { File("rw", Json("compact", MkRecord(SampleName, Absent, Absent, Absent))),
      File("--", Json("compact", MkRecord(SampleName, Absent, Absent, Absent))),
      File("rw", Garbage),
      File("rw", Json("compact", MkRecord(Absent, SampleDesc, Absent, Absent))),
      File("rw", Json("compact", Num(5))),
      File("r-", Json("compact", MkRecord(SampleName, Absent, Absent, Absent))),
      File("rw", Json("compact", MkRecord(Str(LoneSurrogate), Absent, Absent, Absent))) }

Range(seq) == { seq[i] : i \in 1..Len(seq) }

\* The listings of a directory: at most MaxEntries distinct names, any order.
Listings ==
    UNION { { q \in [1..n -> Names] : \A i, j \in 1..n : q[i] = q[j] => i = j }
            : n \in 0..MaxEntries }

(***************************************************************************)
(* State.                                                                  *)
(***************************************************************************)
VARIABLES
    dir,        \* the entries of `workflows', in os.listdir order
    listable,   \* can `workflows' be listed?
    fs,         \* entry name -> file
    run,        \* how many times the program has been started
    pc,         \* where main is
    listing,    \* the list os.listdir returned
    idx,        \* position of the for loop in listing
    data,       \* translate_workflow's local `data' (Null: unbound)
    output,     \* the lines printed in this run
    fsFirst,    \* history: fs when the program was first started
    fsStart,    \* history: fs when this run started
    calls,      \* history: the paths translate_workflow was called on in this run
    status,     \* history: entry name -> how its call ended in this run
    ropened,    \* history: the paths opened for reading in this run
    wopened     \* history: the paths opened for writing in this run

vars == <<dir, listable, fs, run, pc, listing, idx, data, output,
          fsFirst, fsStart, calls, status, ropened, wopened>>

hist == <<fsStart, calls, status, ropened, wopened>>

Processed(filename)  == [line |-> "Processed", filename |-> filename, msg |-> ""]
ErrorLine(filename, e) == [line |-> "Error processing", filename |-> filename, msg |-> e.msg]

\* Mutant: no except clause, the first error ends main.
AfterExcept_Abort == "crashed"

\* Where main continues after the except clause (lines 30-31).
AfterExcept == "loop"

\* The program is started on a directory whose files are drawn from F.
InitFrom(F) ==
    /\ dir \in Listings
    /\ listable \in BOOLEAN
    /\ fs \in [Range(dir) -> F]
    /\ run = 1
    /\ pc = "listdir"
    /\ listing = <<>>
    /\ idx = 1
    /\ data = Null
    /\ output = <<>>
    /\ fsFirst = fs
    /\ fsStart = fs
    /\ calls = <<>>
    /\ status = [n \in Range(dir) |-> "pending"]
    /\ ropened = {}
    /\ wopened = {}

Init == InitFrom(Files)

Current == listing[idx]

\* The except clause: print the error, go on with the next entry.
Except(e, stage) ==
    /\ output' = Append(output, ErrorLine(Current, e))
    /\ status' = [status EXCEPT ![Current] = stage]
    /\ pc' = AfterExcept
    /\ idx' = idx + 1

\* Line 24: os.listdir(workflows_dir); an OSError here is not caught.
ListDir ==
    /\ pc = "listdir"
    /\ IF listable
       THEN /\ listing' = dir
            /\ pc' = "loop"
       ELSE /\ listing' = listing
            /\ pc' = "crashed"
    /\ idx' = 1
    /\ UNCHANGED <<dir, listable, fs, run, data, output, fsFirst, hist>>

\* Lines 24-28: the next entry; call translate_workflow when its name matches.
LoopNext ==
    /\ pc = "loop"
    /\ IF idx > Len(listing)
       THEN /\ pc' = "done"
            /\ UNCHANGED <<idx, calls, data>>
       ELSE IF IsWorkflowFile(Current)
            THEN /\ pc' = "load"
                 /\ calls' = Append(calls, Current)
                 /\ data' = Null
                 /\ idx' = idx
            ELSE /\ pc' = "loop"
                 /\ idx' = idx + 1
                 /\ UNCHANGED <<calls, data>>
    /\ UNCHANGED <<dir, listable, fs, run, listing, output, fsFirst, fsStart,
                   status, ropened, wopened>>

\* Lines 5-6: open for reading, json.load, close.
Load ==
    /\ pc = "load"
    /\ IF ~CanRead(fs[Current])
       THEN /\ Except(PermissionError, "failed_read")
            /\ UNCHANGED <<fs, data, ropened>>
       ELSE /\ fs' = [fs EXCEPT ![Current].text = OpenRead(@)]
            /\ ropened' = ropened \cup {Current}
            /\ LET r == JsonLoad(fs'[Current].text)
               IN  IF r.exc # NoExc
                   THEN /\ Except(r.exc, "failed_parse")
                        /\ data' = data
                   ELSE /\ data' = r.val
                        /\ pc' = "mutate"
                        /\ UNCHANGED <<idx, output, status>>
    /\ UNCHANGED <<dir, listable, run, listing, fsFirst, fsStart, calls, wopened>>

\* Lines 8-17.
MutateStep ==
    /\ pc = "mutate"
    /\ LET r == Mutate(data)
       IN  /\ data' = r.data
           /\ IF r.exc # NoExc
              THEN Except(r.exc, "failed_mutate")
              ELSE /\ pc' = "write"
                   /\ UNCHANGED <<idx, output, status>>
    /\ UNCHANGED <<dir, listable, fs, run, listing, fsFirst, fsStart, calls,
                   ropened, wopened>>

\* Line 19: open for writing, which truncates the file.
OpenForWrite ==
    /\ pc = "write"
    /\ IF ~CanWrite(fs[Current])
       THEN /\ Except(PermissionError, "failed_open_w")
            /\ UNCHANGED <<fs, wopened>>
       ELSE /\ fs' = [fs EXCEPT ![Current].text = OpenWrite(@)]
            /\ wopened' = wopened \cup {Current}
            /\ pc' = "dump"
            /\ UNCHANGED <<idx, output, status>>
    /\ UNCHANGED <<dir, listable, run, listing, data, fsFirst, fsStart, calls, ropened>>

\* Line 20 and the close of the file, then line 29 when nothing was raised.
DumpStep ==
    /\ pc = "dump"
    /\ LET r == JsonDump(data)
       IN  /\ fs' = [fs EXCEPT ![Current].text = r.text]
           /\ IF r.exc # NoExc
              THEN Except(r.exc, "failed_dump")
              ELSE /\ output' = Append(output, Processed(Current))
                   /\ status' = [status EXCEPT ![Current] = "ok"]
                   /\ pc' = "loop"
                   /\ idx' = idx + 1
    /\ UNCHANGED <<dir, listable, run, listing, data, fsFirst, fsStart, calls,
                   ropened, wopened>>

\* Lines 33-34: the program is started again on the directory as it is now.
Rerun ==
    /\ pc \in {"done", "crashed"}
    /\ run < MaxRuns
    /\ run' = run + 1
    /\ pc' = "listdir"
    /\ listing' = <<>>
    /\ idx' = 1
    /\ data' = Null
    /\ output' = <<>>
    /\ fsStart' = fs
    /\ calls' = <<>>
    /\ status' = [n \in Range(dir) |-> "pending"]
    /\ ropened' = {}
    /\ wopened' = {}
    /\ UNCHANGED <<dir, listable, fs, fsFirst>>

Next ==
    \/ ListDir
    \/ LoopNext
    \/ Load
    \/ MutateStep
    \/ OpenForWrite
    \/ DumpStep
    \/ Rerun

Spec == Init /\ [][Next]_vars

\* The program is sequential and every step terminates: it keeps running.
\* Progress of the walker depends on how each call ends, not on the record.
WalkInit == InitFrom(WalkFiles)

FairSpec == WalkInit /\ [][Next]_vars /\ WF_vars(Next)

(***************************************************************************)
(* Vocabulary of the properties.                                           *)
(***************************************************************************)
Entries == DOMAIN status

\* The text of entry f is a JSON document whose top level is a mapping.
IsMapping(text) == text.kind = "json" /\ text.val.t = "obj"

\* The keys of the record entry f held when this run started.
StartKeys(f) == DOMAIN fsStart[f].text.val.o
StartRec(f)  == fsStart[f].text.val.o

\* The call on entry f has ended in this run.
Ended(f) == status[f] # "pending"

\* f is the entry of the call in progress, or of the last call made.
LastCalled(f) == Len(calls) > 0 /\ calls[Len(calls)] = f

\* The in-memory mutation of the call on f is over (it completed or raised).
Mutated(f) ==
    /\ LastCalled(f)
    /\ \/ pc \in {"write", "dump"}
       \/ status[f] \in {"failed_mutate", "failed_open_w", "failed_dump", "ok"}

HasBothKeys(text) ==
    /\ IsMapping(text)
    /\ {"description", "translations"} \subseteq DOMAIN text.val.o

\* tr is a mapping with exactly the entry "fa" -> {name: n, description: d}.
IsFaOnly(tr, n, d) ==
    /\ tr.t = "obj"
    /\ DOMAIN tr.o = {"fa"}
    /\ tr.o["fa"].t = "obj"
    /\ DOMAIN tr.o["fa"].o = {"name", "description"}
    /\ tr.o["fa"].o["name"] = n
    /\ tr.o["fa"].o["description"] = d

(***************************************************************************)
(* C1.  As stated: after translate_workflow has been run on a record, the  *)
(* stored record has both `description' and `translations', whatever its   *)
(* initial keys.  Stated here for the records that can be read and written *)
(* back, so that only the record's keys decide.                            *)
(***************************************************************************)
C1_AnyRecordHasBothKeysAfterRun ==
    \A f \in Entries :
        ( /\ Ended(f)
          /\ IsMapping(fsStart[f].text)
          /\ fsStart[f].perm = "rw"
          /\ Encodable(fsStart[f].text.val) )
        => HasBothKeys(fs[f].text)

\* C1, amended: after translate_workflow has completed without error on a
\* mapping record, the stored record has both `description' and `translations'.
C1_CompletedRecordHasBothKeys ==
    \A f \in Entries :
        (status[f] = "ok" /\ IsMapping(fsStart[f].text)) => HasBothKeys(fs[f].text)

\* A record that had neither key has been processed successfully.
C1_Witness ==
    \E f \in Entries :
        /\ status[f] = "ok"
        /\ IsMapping(fsStart[f].text)
        /\ StartKeys(f) \cap {"description", "translations"} = {}

(***************************************************************************)
(* C2.  For a record with `name' and without `translations': once the      *)
(* mutation is over the in-memory record, and once the transform has       *)
(* completed the stored record, has as `translations' a mapping with       *)
(* exactly the entry "fa", whose name is the record's name and whose       *)
(* description is the record's description: "" when it was defaulted, the  *)
(* value it had otherwise.                                                 *)
(***************************************************************************)
C2_Expected(f, rec) ==
    /\ rec.t = "obj"
    /\ {"name", "description", "translations"} \subseteq DOMAIN rec.o
    /\ rec.o["name"] = StartRec(f)["name"]
    /\ rec.o["description"] =
          (IF "description" \in StartKeys(f) THEN StartRec(f)["description"] ELSE Str(""))
    /\ IsFaOnly(rec.o["translations"], rec.o["name"], rec.o["description"])

\* C2: a record with name and without translations gets exactly the entry
\* "fa" mirroring its final name and description, in memory and when stored.
C2_SynthesizedTranslations ==
    \A f \in Entries :
        ( /\ IsMapping(fsStart[f].text)
          /\ "name" \in StartKeys(f)
          /\ "translations" \notin StartKeys(f) )
        => /\ Mutated(f) => C2_Expected(f, data)
           /\ status[f] = "ok" => (fs[f].text.kind = "json" /\ C2_Expected(f, fs[f].text.val))

\* Two records without translations were completed: one whose description
\* was defaulted and one that had a description.
C2_Witness ==
    \E f, g \in Entries :
        /\ status[f] = "ok" /\ status[g] = "ok"
        /\ IsMapping(fsStart[f].text) /\ IsMapping(fsStart[g].text)
        /\ StartKeys(f) = {"name"}
        /\ StartKeys(g) = {"name", "description"}
        /\ StartRec(g)["description"] # Str("")

(***************************************************************************)
(* C3.  For a record that already has `translations' (of any shape, with   *)
(* or without `name' and `description'): the in-memory record keeps the    *)
(* value of `translations' throughout the call, the transform completes,   *)
(* and whenever the file holds a JSON document its `translations' is the   *)
(* original value.                                                         *)
(***************************************************************************)
C3_TranslationsUntouched ==
    \A f \in Entries :
        (IsMapping(fsStart[f].text) /\ "translations" \in StartKeys(f))
        => /\ (LastCalled(f) /\ data # Null)
                => /\ data.t = "obj"
                   /\ "translations" \in DOMAIN data.o
                   /\ data.o["translations"] = StartRec(f)["translations"]
           /\ fs[f].text.kind = "json"
                => /\ IsMapping(fs[f].text)
                   /\ "translations" \in DOMAIN fs[f].text.val.o
                   /\ fs[f].text.val.o["translations"] = StartRec(f)["translations"]
           /\ (Ended(f) /\ fsStart[f].perm = "rw" /\ Encodable(fsStart[f].text.val))
                => status[f] = "ok"

\* A record with translations that lack "fa", and without name, was completed.
C3_Witness ==
    \E f \in Entries :
        /\ status[f] = "ok"
        /\ IsMapping(fsStart[f].text)
        /\ "translations" \in StartKeys(f)
        /\ "name" \notin StartKeys(f)
        /\ "fa" \notin DOMAIN StartRec(f)["translations"].o

(***************************************************************************)
(* C4.  Idempotence: a second run of the program over the directory leaves *)
(* every file exactly as the first run left it (text, layout included),    *)
(* also the files whose call failed in the first run; and every call of a  *)
(* later run that has ended has left its file as it found it.              *)
(***************************************************************************)
C4_Idempotent ==
    run >= 2 =>
        /\ \A f \in Entries : Ended(f) => fs[f] = fsStart[f]
        /\ pc = "done" => fs = fsStart

\* The second run is over; the first run rewrote one file and left another
\* one half-written after a failed write.
C4_Witness ==
    /\ run = 2
    /\ pc = "done"
    /\ \E f, g \in Entries :
          /\ status[f] = "ok"
          /\ fs[f] # fsFirst[f]
          /\ fs[g].text.kind = "partial"
          /\ status[g] = "failed_parse"

(***************************************************************************)
(* C5.  Failure isolation: when the directory can be listed, main reaches  *)
(* its normal end, every call made so far is on the entries named *.json   *)
(* of the listing, once each and in listing order, and at the end every    *)
(* such entry has been attempted; main ends abnormally only when the       *)
(* listing fails, and then no file has been opened or changed.             *)
(***************************************************************************)
HasJsonExtension(name) ==
    /\ Len(name) >= 5
    /\ name[Len(name) - 4] = "."
    /\ name[Len(name) - 3] = "j"
    /\ name[Len(name) - 2] = "s"
    /\ name[Len(name) - 1] = "o"
    /\ name[Len(name)] = "n"

Selected == SelectSeq(dir, HasJsonExtension)

C5_Safety ==
    /\ Len(calls) <= Len(Selected)
    /\ calls = SubSeq(Selected, 1, Len(calls))
    /\ pc = "done" => calls = Selected /\ \A f \in Range(Selected) : Ended(f)
    /\ pc = "crashed" =>
          /\ ~listable
          /\ calls = <<>>
          /\ ropened = {} /\ wopened = {}
          /\ fs = fsStart

\* C5: the calls are always the *.json entries in listing order, main ends
\* abnormally only on a failed listing, and a listable directory is always
\* walked to the normal end of main.
C5_FailureIsolation ==
    /\ []C5_Safety
    /\ [](listable => <>(pc = "done"))

\* main is over; the call on the first entry failed, the call on the second
\* was made and completed.
C5_Witness ==
    /\ pc = "done"
    /\ Len(calls) = 2
    /\ status[calls[1]] \in {"failed_read", "failed_parse", "failed_mutate",
                             "failed_open_w", "failed_dump"}
    /\ status[calls[2]] = "ok"

(***************************************************************************)
(* C6.  For a record without `description': once the mutation is over the  *)
(* in-memory record has description "", also when the mutation then fails  *)
(* on a missing name; and once the transform has completed, the stored     *)
(* record has description "".                                              *)
(***************************************************************************)
C6_DescriptionIs(rec) ==
    /\ rec.t = "obj"
    /\ "description" \in DOMAIN rec.o
    /\ rec.o["description"] = Str("")

\* C6: a record without description has description "" after the transform.
C6_DefaultDescription ==
    \A f \in Entries :
        (IsMapping(fsStart[f].text) /\ "description" \notin StartKeys(f))
        => /\ Mutated(f) => C6_DescriptionIs(data)
           /\ status[f] = "ok" => (fs[f].text.kind = "json" /\ C6_DescriptionIs(fs[f].text.val))

\* A record without description was completed, and the mutation of another
\* one failed after the default had been inserted.
C6_Witness ==
    \E f, g \in Entries :
        /\ IsMapping(fsStart[f].text) /\ "description" \notin StartKeys(f)
        /\ IsMapping(fsStart[g].text) /\ "description" \notin StartKeys(g)
        /\ status[f] = "ok"
        /\ status[g] = "failed_mutate"
        /\ LastCalled(g)

(***************************************************************************)
(* C7.  A readable record with neither `name' nor `translations': the call *)
(* ends in the mutation with KeyError('name'), the walker prints exactly   *)
(* one line for the file, the error line with that message, and the file   *)
(* is left as it was.  A record without `name' but with `translations':    *)
(* the mutation does not fail and no KeyError line is printed for it.      *)
(***************************************************************************)
LinesOf(f) == { i \in 1..Len(output) : output[i].filename = f }

\* C7: KeyError('name') is raised, caught and reported exactly for the records
\* with neither name nor translations.
C7_MissingName ==
    \A f \in Entries :
        ( /\ Ended(f)
          /\ IsMapping(fsStart[f].text)
          /\ fsStart[f].perm # "--"
          /\ "name" \notin StartKeys(f) )
        => IF "translations" \notin StartKeys(f)
           THEN /\ status[f] = "failed_mutate"
                /\ Cardinality(LinesOf(f)) = 1
                /\ \A i \in LinesOf(f) :
                      output[i] = [line |-> "Error processing", filename |-> f, msg |-> "'name'"]
                /\ fs[f] = fsStart[f]
           ELSE /\ status[f] # "failed_mutate"
                /\ \A i \in LinesOf(f) : output[i].msg # "'name'"

\* Both cases have happened in one run.
C7_Witness ==
    \E f, g \in Entries :
        /\ IsMapping(fsStart[f].text) /\ IsMapping(fsStart[g].text)
        /\ StartKeys(f) \cap {"name", "translations"} = {}
        /\ StartKeys(g) \cap {"name", "translations"} = {"translations"}
        /\ status[f] = "failed_mutate"
        /\ status[g] = "ok"

(***************************************************************************)
(* C8.  When main is over, the printed lines are, in listing order, one    *)
(* line per entry named *.json: "Processed" exactly when its call          *)
(* completed without error, "Error processing" otherwise; at any time an  *)
(* entry has at most one line, and has one exactly when its call has       *)
(* ended.  An entry with another name is never called on, opened or        *)
(* changed, and has no line.                                               *)
(***************************************************************************)
C8_OneLinePerEntry ==
    /\ pc = "done" =>
          /\ Len(output) = Len(Selected)
          /\ \A i \in 1..Len(output) :
                /\ output[i].filename = Selected[i]
                /\ output[i].line \in {"Processed", "Error processing"}
                /\ output[i].line = "Processed" <=> status[Selected[i]] = "ok"
    /\ \A f \in Entries :
          /\ Cardinality(LinesOf(f)) <= 1
          /\ LinesOf(f) # {} <=> Ended(f)
    /\ \A f \in Entries :
          ~HasJsonExtension(f) =>
              /\ f \notin ropened \cup wopened
              /\ f \notin Range(calls)
              /\ status[f] = "pending"
              /\ fs[f] = fsFirst[f]
              /\ LinesOf(f) = {}

\* main is over: an entry that is not named *.json was skipped, the other
\* entry was processed.
C8_Witness ==
    /\ pc = "done"
    /\ Len(listing) = 2
    /\ ~HasJsonExtension(listing[1])
    /\ Len(output) = 1
    /\ output[1].line = "Processed"

(***************************************************************************)
(* C9.  A call that failed while reading, parsing or mutating never opened *)
(* its file for writing and left it exactly as it was; a file differs from *)
(* what it was when the run started only if it has been opened for         *)
(* writing, which happens only after the mutation has completed.           *)
(***************************************************************************)
C9_UnchangedOnEarlyFailure ==
    \A f \in Entries :
        /\ status[f] \in {"failed_read", "failed_parse", "failed_mutate"}
              => (f \notin wopened /\ fs[f] = fsStart[f])
        /\ fs[f] # fsStart[f] => f \in wopened
        /\ f \in wopened =>
              \/ status[f] \in {"failed_dump", "ok"}
              \/ status[f] = "pending" /\ LastCalled(f) /\ pc = "dump"

\* One call failed in the mutation, another one failed in the write and
\* left its file half-written.
C9_Witness ==
    \E f, g \in Entries :
        /\ status[f] = "failed_mutate"
        /\ status[g] = "failed_dump"
        /\ fs[g].text.kind = "partial"

(***************************************************************************)
(* C10.  Frame of a completed transform: the stored record has the keys it *)
(* had plus `description' and `translations', and every key it had keeps   *)
(* its value; a document that is not a mapping is stored as it was.        *)
(***************************************************************************)
C10_Frame ==
    \A f \in Entries :
        status[f] = "ok" =>
            /\ fs[f].text.kind = "json"
            /\ IF IsMapping(fsStart[f].text)
               THEN /\ IsMapping(fs[f].text)
                    /\ DOMAIN fs[f].text.val.o = StartKeys(f) \cup {"description", "translations"}
                    /\ \A k \in StartKeys(f) : fs[f].text.val.o[k] = StartRec(f)[k]
               ELSE fs[f].text.val = fsStart[f].text.val

\* A record with another key and an empty description, without
\* translations, was completed.
C10_Witness ==
    \E f \in Entries :
        /\ status[f] = "ok"
        /\ IsMapping(fsStart[f].text)
        /\ StartKeys(f) = {"name", "description", "id"}
        /\ StartRec(f)["description"] = Str("")

=============================================================================
